---- MODULE Spec2Model ----
(***************************************************************************)
(* Model of the weather radar backend (server.py): the frame locator, the  *)
(* variable and bounds resolver, the render-to-file step and the two HTTP  *)
(* handlers latest_meta and latest_image, served by a threaded server.     *)
(***************************************************************************)
EXTENDS Integers, Sequences, FiniteSets, TLC

VARIABLES
    clock,      \* the UTC wall clock read by datetime.utcnow(): [min, sec]
    archive,    \* the remote archive: the URLs that exist, each with its content
    image,      \* the file at OUTPUT_IMAGE: [exists, bytes]
    figs,       \* pyplot's process-wide stack of open figures (last is current)
    pc,         \* per worker thread: position inside the handler it runs
    frame,      \* per worker thread: the local variables of the handler
    resp,       \* per worker thread: the HTTP response last returned
    hist,       \* per worker thread: what the current run did (history)
    lastGood,   \* history: raster written by the most recent successful run
    nreq,       \* history: number of requests the server has accepted
    arg,        \* input dataset of the resolver-only specifications
    ret         \* result of the resolver-only specifications

vars ==
    <<clock, archive, image, figs, pc, frame, resp, hist, lastGood, nreq, arg, ret>>

(***************************************************************************)
(* Bounds of the model.                                                    *)
(***************************************************************************)
MaxVars == 3        \* data variables in a dataset drawn for pick_reflectivity_var
MaxCoords == 3      \* coordinates in a dataset drawn for get_bounds_from_dataset
MaxLen == 2         \* length of a coordinate array
MaxFiles == 2       \* files present in the archive
ImageChunks == 2    \* write() calls that make up one saved PNG
MaxFigs == 2        \* figures pyplot may hold open at once
MaxRequests == 2    \* requests that arrive at the server

Range(s) == {s[i] : i \in DOMAIN s}
SetMin(S) == CHOOSE x \in S : \A y \in S : x <= y
SetMax(S) == CHOOSE x \in S : \A y \in S : x >= y

(***************************************************************************)
(* Text.  A name is a sequence of one-character strings so that lower()    *)
(* and the substring test are computed and not assumed.                    *)
(***************************************************************************)
UpperChars == <<"A","B","C","D","E","F","G","H","I","J","K","L","M",
                "N","O","P","Q","R","S","T","U","V","W","X","Y","Z">>
LowerChars == <<"a","b","c","d","e","f","g","h","i","j","k","l","m",
                "n","o","p","q","r","s","t","u","v","w","x","y","z">>

LowerChar(c) ==
    IF \E i \in DOMAIN UpperChars : UpperChars[i] = c
    THEN LowerChars[CHOOSE i \in DOMAIN UpperChars : UpperChars[i] = c]
    ELSE c

\* str.lower()
lower(v) == [i \in DOMAIN v |-> LowerChar(v[i])]

\* sub in s
Contains(sub, s) ==
    \E i \in 1..(Len(s) - Len(sub) + 1) : SubSeq(s, i, i + Len(sub) - 1) = sub

reflect == <<"r","e","f","l","e","c","t">>

\* the test of line 22 with the lower() forgotten
MatchesCaseSensitive(v) == Contains(reflect, v)

\* "reflect" in v.lower()
Matches(v) == Contains(reflect, lower(v))

RECURSIVE PickFrom(_, _)
\* the for loop of pick_reflectivity_var from position i on, then line 24
PickFrom(data_vars, i) ==
    IF i > Len(data_vars) THEN data_vars[1]
    ELSE IF Matches(data_vars[i]) THEN data_vars[i]
    ELSE PickFrom(data_vars, i + 1)

\* pick_reflectivity_var(ds), for a dataset with at least one data variable
pick_reflectivity_var(ds) == PickFrom(ds.data_vars, 1)

(***************************************************************************)
(* Bounds resolver.                                                        *)
(***************************************************************************)
LatAliases == <<"latitude", "lat", "Latitude", "LATITUDE">>
LonAliases == <<"longitude", "lon", "Longitude", "LONGITUDE">>
FallbackBounds == <<25, -125, 50, -65>>

RECURSIVE FirstAlias(_, _, _)
\* the for/break loops of lines 29-36: position of the first alias that is
\* a coordinate of the dataset, 0 for none (lat / lon stays None)
FirstAlias(aliases, coords, i) ==
    IF i > Len(aliases) THEN 0
    ELSE IF aliases[i] \in DOMAIN coords THEN i
    ELSE FirstAlias(aliases, coords, i + 1)

np_min(a) == SetMin(Range(a))
np_max(a) == SetMax(Range(a))

\* get_bounds_from_dataset with np.max(lon) and np.min(lon) exchanged
get_bounds_swapped(ds) ==
    LET la == FirstAlias(LatAliases, ds.coords, 1)
        lo == FirstAlias(LonAliases, ds.coords, 1)
    IN  IF la = 0 \/ lo = 0 THEN FallbackBounds
        ELSE LET lat == ds.coords[LatAliases[la]]
                 lon == ds.coords[LonAliases[lo]]
             IN  <<np_min(lat), np_max(lon), np_max(lat), np_min(lon)>>

get_bounds_from_dataset(ds) ==
    LET la == FirstAlias(LatAliases, ds.coords, 1)
        lo == FirstAlias(LonAliases, ds.coords, 1)
    IN  IF la = 0 \/ lo = 0 THEN FallbackBounds
        ELSE LET lat == ds.coords[LatAliases[la]]
                 lon == ds.coords[LonAliases[lo]]
             IN  <<np_min(lat), np_min(lon), np_max(lat), np_max(lon)>>

(***************************************************************************)
(* Frame locator.                                                          *)
(***************************************************************************)
BASE_PATHS == <<
    "https://noaa-mrms-pds.s3.amazonaws.com/MRMS/ReflectivityAtLowestAltitude/00.50",
    "https://noaa-mrms-pds.s3.amazonaws.com/MRMS/ReflectivityAtLowestAltitude",
    "https://noaa-mrms-pds.s3.amazonaws.com/MRMS/RadarOnly/CONUS/00.50">>

HorizonMinutes == 240
Cadence == 2
MinutesPerDay == 24 * 60

None == <<>>

\* range(0, 240, 2) walked from the far end: oldest candidate first
minute_offsets_oldest_first ==
    [k \in 1..((HorizonMinutes + Cadence - 1) \div Cadence) |->
        Cadence * (((HorizonMinutes + Cadence - 1) \div Cadence) - k)]

\* range(0, 238, 2): the window cut one candidate short
minute_offsets_short ==
    [k \in 1..((HorizonMinutes - 1) \div Cadence) |-> Cadence * (k - 1)]

\* range(0, 240, 2), in iteration order
minute_offsets ==
    [k \in 1..((HorizonMinutes + Cadence - 1) \div Cadence) |-> Cadence * (k - 1)]

\* now - datetime.timedelta(minutes=minute_offset)
minus_minutes(now, minute_offset) ==
    [min |-> now.min - minute_offset, sec |-> now.sec]

\* dt.strftime('%Y%m%d-%H%M00'): the date (as a day number), the hour and the
\* minute of dt, then the literal "00"; the seconds of dt are not used
strftime(dt) ==
    <<dt.min \div MinutesPerDay, (dt.min % MinutesPerDay) \div 60, dt.min % 60, "00">>

\* the f-string of line 64
fname_of(dt) ==
    <<"MRMS_ReflectivityAtLowestAltitude_00.50_", strftime(dt), ".grib2.gz">>

\* the f-string of line 67
url_of(base, fname) == <<base, fname>>

\* requests.head(url).status_code
head_status(arch, url) == IF url \in DOMAIN arch THEN 200 ELSE 404

\* the inner loop walking BASE_PATHS from its last entry to its first
base_at_reversed(j) == BASE_PATHS[Len(BASE_PATHS) + 1 - j]

\* the j-th base the inner loop of line 66 visits
base_at(j) == BASE_PATHS[j]

\* the n-th URL the nested loops of lines 62-67 build: for each offset in
\* turn, every base in turn
candidate_url(now, n) ==
    LET k == ((n - 1) \div Len(BASE_PATHS)) + 1
        j == ((n - 1) % Len(BASE_PATHS)) + 1
    IN  url_of(base_at(j), fname_of(minus_minutes(now, minute_offsets[k])))

\* try_fetch_latest_file(), with the clock reading and the archive explicit:
\* HEAD requests go out in loop order up to and including the first one
\* answered 200 (line 69), whose URL is returned; None when none is (line 72).
\* probes is the number of HEAD requests issued
try_fetch_latest_file(now, arch) ==
    LET N == Len(minute_offsets) * Len(BASE_PATHS)
        found(n) == head_status(arch, candidate_url(now, n)) = 200
    IN  IF \E n \in 1..N : found(n)
        THEN LET first == CHOOSE n \in 1..N :
                              found(n) /\ \A m \in 1..(n - 1) : ~found(m)
             IN  [url |-> candidate_url(now, first), probes |-> first]
        ELSE [url |-> None, probes |-> N]

(***************************************************************************)
(* Remote payloads and decoded datasets.                                   *)
(***************************************************************************)
MockReflectivity ==
    <<"M","o","c","k","R","e","f","l","e","c","t","i","v","i","t","y">>
REFLECTIVITY == <<"R","E","F","L","E","C","T","I","V","I","T","Y">>
BaseReflect == <<"B","a","s","e","R","e","f","l","e","c","t">>
Reflec == <<"R","e","f","l","e","c">>
precip == <<"p","r","e","c","i","p">>
unknown == <<"u","n","k","n","o","w","n">>

VarNames == {MockReflectivity, REFLECTIVITY, BaseReflect, Reflec, precip, unknown}

NoCoords == [n \in {} |-> <<>>]

\* a grid with a reflectivity field that is not the first one and
\* latitude / longitude axes
DsRadar ==
    [id |-> "radar", data_vars |-> <<precip, MockReflectivity>>, ndim |-> 2,
     coords |-> [latitude |-> <<30, 40>>, longitude |-> <<-100, -90>>]]
\* a grid whose axes go by names the resolver does not know
DsNoAxes ==
    [id |-> "noaxes", data_vars |-> <<unknown>>, ndim |-> 2,
     coords |-> [y |-> <<30, 40>>, x |-> <<-100, -90>>]]
\* a grid whose field is not two-dimensional
DsCube ==
    [id |-> "cube", data_vars |-> <<REFLECTIVITY>>, ndim |-> 3,
     coords |-> [lat |-> <<40, 30>>, lon |-> <<-90>>]]
\* a grid file that decodes to no field at all
DsEmpty == [id |-> "empty", data_vars |-> <<>>, ndim |-> 2, coords |-> NoCoords]

NoData == [grib |-> FALSE, ds |-> DsEmpty]
NoContent == [gz |-> FALSE, inner |-> NoData]

\* gzip.compress of a GRIB2 file that decodes to ds
GribGz(ds) == [gz |-> TRUE, inner |-> [grib |-> TRUE, ds |-> ds]]

\* what an object of the archive may hold: compressed grids, a compressed
\* file that is no grid, a file that is not gzip
Contents ==
    {GribGz(d) : d \in {DsRadar, DsNoAxes, DsCube, DsEmpty}}
    \cup {[gz |-> TRUE, inner |-> NoData], NoContent}

\* the statuses other than 200 a GET is answered with
RejectStatuses == {404, 503}

(***************************************************************************)
(* The image file and pyplot's figures.                                    *)
(***************************************************************************)
Absent == [exists |-> FALSE, bytes |-> <<>>]
Hole == <<0, <<>>>>

\* the bytes savefig produces for a figure, in the write() calls they go
\* to the file in
PngBytes(fig) == [k \in 1..ImageChunks |-> <<k, fig>>]

\* a raster left at OUTPUT_IMAGE by an earlier process
StaleImage ==
    [exists |-> TRUE,
     bytes |-> PngBytes(<<[data |-> [of |-> "stale", var |-> unknown, ndim |-> 2],
                          extent |-> <<0, 0, 0, 0>>]>>)]

\* write(chunk) through a descriptor positioned at p - 1
WriteAt(bytes, p, chunk) ==
    [i \in 1..(IF Len(bytes) > p THEN Len(bytes) ELSE p) |->
        IF i = p THEN chunk ELSE IF i <= Len(bytes) THEN bytes[i] ELSE Hole]

\* gcf(): the figure stack once a current figure is ensured
WithCurrent(fs) == IF fs = <<>> THEN << <<>> >> ELSE fs

(***************************************************************************)
(* Worker threads, their locals and their responses.                       *)
(***************************************************************************)
Workers == {"w1", "w2"}

NoArr == [of |-> "none", var |-> <<>>, ndim |-> 0]
Frame0 ==
    [now |-> [min |-> 0, sec |-> 0], file_url |-> None,
     content |-> NoContent, data |-> NoData, ds |-> DsEmpty,
     reflectivity |-> NoArr, bounds |-> <<>>, extent |-> <<>>,
     buf |-> <<>>, pos |-> 0, created |-> FALSE, detached |-> FALSE]

Hist0 ==
    [before |-> Absent, steps |-> <<>>, fetches |-> 0, saves |-> 0,
     outcome |-> "none"]

\* the locals of worker w once its handler has returned
Leave(w) ==
    [frame EXCEPT ![w] = [Frame0 EXCEPT !.now = frame[w].now,
                                        !.file_url = frame[w].file_url]]

NoResp == [status |-> 0, kind |-> "none", error |-> <<>>, body |-> <<>>]

NoRecentMsg == <<"No recent MRMS files found (checked multiple folders)">>
FetchFailedMsg(status) == <<"Failed to fetch GRIB2 (HTTP ", status, ")">>
NotYetMsg == <<"Image not yet generated. Call /latest-meta first.">>
\* str(e)
ExcMsg(e) == <<"exception", e>>

\* jsonify({"error": msg}), status
ErrorResp(status, msg) ==
    [status |-> status, kind |-> "error", error |-> msg, body |-> <<>>]

Step(name, ok) == [step |-> name, ok |-> ok]

\* int(time.time())
time_time(c) == c.min * 60 + c.sec

(***************************************************************************)
(* latest_meta: one pipeline pass per request.                             *)
(***************************************************************************)
\* the run of worker w ends at line 80, 84 or 94: status 500 and a description
Fail(w, h, kind, failed, msg) ==
    /\ pc' = [pc EXCEPT ![w] = "done"]
    /\ resp' = [resp EXCEPT ![w] = ErrorResp(500, msg)]
    /\ hist' = [hist EXCEPT ![w] =
           [h EXCEPT !.outcome = kind,
                     !.steps = Append(@, Step(failed, FALSE))]]

\* lines 76-80: the request arrives, try_fetch_latest_file() runs
LatestMetaLocate(w) ==
    /\ pc[w] \in {"idle", "done"}
    /\ nreq < MaxRequests
    /\ LET r == try_fetch_latest_file(clock, archive)
           h == [Hist0 EXCEPT !.before = image]
       IN  /\ frame' = [frame EXCEPT ![w] =
                  [Frame0 EXCEPT !.now = clock, !.file_url = r.url]]
           /\ IF r.url = None
              THEN /\ pc' = [pc EXCEPT ![w] = "done"]
                   /\ resp' = [resp EXCEPT ![w] = ErrorResp(500, NoRecentMsg)]
                   /\ hist' = [hist EXCEPT ![w] =
                          [h EXCEPT !.outcome = "NotFound",
                                    !.steps = <<Step("locate", FALSE)>>]]
              ELSE /\ pc' = [pc EXCEPT ![w] = "fetch"]
                   /\ resp' = [resp EXCEPT ![w] = NoResp]
                   /\ hist' = [hist EXCEPT ![w] =
                          [h EXCEPT !.outcome = "running",
                                    !.steps = <<Step("locate", TRUE)>>]]
    /\ nreq' = nreq + 1
    /\ UNCHANGED <<clock, archive, image, figs, lastGood, arg, ret>>

\* lines 82-84 with the early return of line 84 left out
FetchNoReturn(w) ==
    /\ pc[w] = "fetch"
    /\ \E status \in RejectStatuses \cup {200} :
          /\ frame' = [frame EXCEPT ![w].content =
                 IF status = 200 THEN archive[frame[w].file_url] ELSE NoContent]
          /\ pc' = [pc EXCEPT ![w] = "decompress"]
          /\ resp' = resp
          /\ hist' = [hist EXCEPT ![w].fetches = @ + 1,
                                  ![w].steps = Append(@, Step("fetch", status = 200))]
    /\ UNCHANGED <<clock, archive, image, figs, lastGood, nreq, arg, ret>>

\* lines 82-84: requests.get(file_url, timeout=60) and the status test
Fetch(w) ==
    /\ pc[w] = "fetch"
    /\ \/ \* the request raises (timeout, connection error): line 92
          /\ Fail(w, [hist[w] EXCEPT !.fetches = @ + 1], "FetchError", "fetch",
                  ExcMsg("ReadTimeout"))
          /\ frame' = Leave(w)
       \/ \* a status other than 200: line 84
          \E status \in RejectStatuses :
             /\ Fail(w, [hist[w] EXCEPT !.fetches = @ + 1], "FetchFailed",
                     "fetch", FetchFailedMsg(status))
             /\ frame' = Leave(w)
       \/ \* status 200 and the object's content
          /\ frame' = [frame EXCEPT ![w].content = archive[frame[w].file_url]]
          /\ pc' = [pc EXCEPT ![w] = "decompress"]
          /\ resp' = resp
          /\ hist' = [hist EXCEPT ![w].fetches = @ + 1,
                                  ![w].steps = Append(@, Step("fetch", TRUE))]
    /\ UNCHANGED <<clock, archive, image, figs, lastGood, nreq, arg, ret>>

\* line 86: gzip.decompress(r.content)
Decompress(w) ==
    /\ pc[w] = "decompress"
    /\ \/ /\ ~frame[w].content.gz
          /\ Fail(w, hist[w], "DecompressFailed", "decompress", ExcMsg("BadGzipFile"))
          /\ frame' = Leave(w)
       \/ /\ frame[w].content.gz
          /\ frame' = [frame EXCEPT ![w].data = frame[w].content.inner,
                                    ![w].content = NoContent]
          /\ pc' = [pc EXCEPT ![w] = "decode"]
          /\ resp' = resp
          /\ hist' = [hist EXCEPT ![w].steps = Append(@, Step("decompress", TRUE))]
    /\ UNCHANGED <<clock, archive, image, figs, lastGood, nreq, arg, ret>>

\* line 43: xr.open_dataset(io.BytesIO(data_bytes), engine="cfgrib", ...)
Decode(w) ==
    /\ pc[w] = "decode"
    /\ \/ /\ ~frame[w].data.grib
          /\ Fail(w, hist[w], "DecodeFailed", "decode", ExcMsg("ValueError"))
          /\ frame' = Leave(w)
       \/ /\ frame[w].data.grib
          /\ frame' = [frame EXCEPT ![w].ds = frame[w].data.ds,
                                    ![w].data = NoData]
          /\ pc' = [pc EXCEPT ![w] = "resolve"]
          /\ resp' = resp
          /\ hist' = [hist EXCEPT ![w].steps = Append(@, Step("decode", TRUE))]
    /\ UNCHANGED <<clock, archive, image, figs, lastGood, nreq, arg, ret>>

\* lines 44-48: the field, its masked values, the bounds and the extent
Resolve(w) ==
    /\ pc[w] = "resolve"
    /\ LET ds == frame[w].ds IN
       \/ \* list(ds.data_vars)[0] on a dataset without fields: IndexError
          /\ ds.data_vars = <<>>
          /\ Fail(w, hist[w], "DecodeFailed", "resolve", ExcMsg("IndexError"))
          /\ frame' = Leave(w)
       \/ /\ ds.data_vars # <<>>
          /\ LET var_name == pick_reflectivity_var(ds)
                 bounds == get_bounds_from_dataset(ds)
             IN  frame' = [frame EXCEPT
                     ![w].reflectivity =
                         [of |-> ds.id, var |-> var_name, ndim |-> ds.ndim],
                     ![w].ds = DsEmpty,
                     ![w].bounds = bounds,
                     ![w].extent =
                         <<bounds[2], bounds[4], bounds[1], bounds[3]>>]
          /\ pc' = [pc EXCEPT ![w] = "figure"]
          /\ resp' = resp
          /\ hist' = [hist EXCEPT ![w].steps = Append(@, Step("resolve", TRUE))]
    /\ UNCHANGED <<clock, archive, image, figs, lastGood, nreq, arg, ret>>

\* line 50: plt.figure() opens a figure and makes it the current one
Figure(w) ==
    /\ pc[w] = "figure"
    /\ Len(figs) < MaxFigs
    /\ figs' = Append(figs, <<>>)
    /\ pc' = [pc EXCEPT ![w] = "imshow"]
    /\ UNCHANGED <<clock, archive, image, frame, resp, hist, lastGood, nreq, arg, ret>>

\* lines 51-53: plt.imshow(...) draws on whatever figure is current (one is
\* opened when none is); axis("off") and tight_layout act on it too
Imshow(w) ==
    /\ pc[w] = "imshow"
    /\ \/ \* a field that is not two-dimensional: TypeError, the figure stays
          /\ frame[w].reflectivity.ndim # 2
          /\ Fail(w, hist[w], "RenderFailed", "render", ExcMsg("TypeError"))
          /\ figs' = WithCurrent(figs)
          /\ frame' = Leave(w)
       \/ /\ frame[w].reflectivity.ndim = 2
          /\ LET fs == WithCurrent(figs) IN
             figs' = [fs EXCEPT ![Len(fs)] =
                         Append(@, [data |-> frame[w].reflectivity,
                                    extent |-> frame[w].extent])]
          /\ pc' = [pc EXCEPT ![w] = "savefig"]
          /\ UNCHANGED <<resp, hist, frame>>
    /\ UNCHANGED <<clock, archive, image, lastGood, nreq, arg, ret>>

\* line 54, first half: plt.savefig renders the current figure and opens
\* OUTPUT_IMAGE for writing, which creates the file or empties it
SavefigOpen(w) ==
    /\ pc[w] = "savefig"
    /\ figs' = WithCurrent(figs)
    /\ \/ \* the file cannot be opened: OSError before anything is written
          /\ Fail(w, [hist[w] EXCEPT !.saves = @ + 1], "RenderFailed", "render",
                  ExcMsg("OSError"))
          /\ frame' = Leave(w)
          /\ image' = image
       \/ /\ LET fs == WithCurrent(figs) IN
             frame' = [frame EXCEPT ![w].buf = PngBytes(fs[Len(fs)]),
                                    ![w].pos = 0,
                                    ![w].created = ~image.exists,
                                    ![w].detached = FALSE]
          /\ image' = [exists |-> TRUE, bytes |-> <<>>]
          /\ pc' = [pc EXCEPT ![w] = "write"]
          /\ hist' = [hist EXCEPT ![w].saves = @ + 1]
          /\ resp' = resp
    /\ UNCHANGED <<clock, archive, lastGood, nreq, arg, ret>>
\* line 54, second half: the bytes go to the file one write() at a time
SavefigWrite(w) ==
    /\ pc[w] = "write"
    /\ \/ \* the next write() succeeds
          /\ frame[w].pos < ImageChunks
          /\ image' =
                IF frame[w].detached THEN image
                ELSE [exists |-> TRUE,
                      bytes |-> WriteAt(image.bytes, frame[w].pos + 1,
                                        frame[w].buf[frame[w].pos + 1])]
          /\ frame' = [frame EXCEPT ![w].pos = @ + 1]
          /\ UNCHANGED <<pc, resp, hist>>
       \/ \* the next write() raises (disk full, I/O error) and what was
          \* written so far stays in the file
          /\ frame[w].pos < ImageChunks
          /\ Fail(w, hist[w], "RenderFailed", "render", ExcMsg("OSError"))
          /\ frame' = Leave(w)
          /\ image' = image
       \/ \* the same, with an imaging library that removes a file that its
          \* own save call had created; descriptors other threads hold on
          \* it then write to a file without a name
          /\ frame[w].pos < ImageChunks
          /\ frame[w].created
          /\ Fail(w, hist[w], "RenderFailed", "render", ExcMsg("OSError"))
          /\ image' = Absent
          /\ frame' = [v \in Workers |->
                IF v = w THEN Leave(w)[w]
                ELSE IF pc[v] = "write"
                THEN [frame[v] EXCEPT !.detached = TRUE] ELSE frame[v]]
       \/ \* everything is written: the file is closed
          /\ frame[w].pos = ImageChunks
          /\ pc' = [pc EXCEPT ![w] = "close"]
          /\ UNCHANGED <<image, frame, resp, hist>>
    /\ UNCHANGED <<clock, archive, figs, lastGood, nreq, arg, ret>>

\* lines 55-56 and 88-90: plt.close() closes the current figure, then the
\* bounds, the time and the source URL are returned
CloseAndReturn(w) ==
    /\ pc[w] = "close"
    /\ figs' = IF figs = <<>> THEN figs ELSE SubSeq(figs, 1, Len(figs) - 1)
    /\ resp' = [resp EXCEPT ![w] =
           [status |-> 200, kind |-> "meta", error |-> <<>>,
            body |-> <<frame[w].bounds, time_time(clock), frame[w].file_url>>]]
    /\ hist' = [hist EXCEPT ![w].outcome = "Done",
                            ![w].steps = Append(@, Step("render", TRUE))]
    /\ lastGood' = [any |-> TRUE, bytes |-> frame[w].buf]
    /\ frame' = Leave(w)
    /\ pc' = [pc EXCEPT ![w] = "done"]
    /\ UNCHANGED <<clock, archive, image, nreq, arg, ret>>

(***************************************************************************)
(* latest_image.                                                           *)
(***************************************************************************)
\* lines 98-100: the request arrives, os.path.exists(OUTPUT_IMAGE) is tested
LatestImageExists(w) ==
    /\ pc[w] \in {"idle", "done"}
    /\ nreq < MaxRequests
    /\ frame' = [frame EXCEPT ![w] = Frame0]
    /\ IF ~image.exists
       THEN /\ pc' = [pc EXCEPT ![w] = "done"]
            /\ resp' = [resp EXCEPT ![w] = ErrorResp(400, NotYetMsg)]
            /\ hist' = [hist EXCEPT ![w] =
                   [Hist0 EXCEPT !.before = image, !.outcome = "NotYet"]]
       ELSE /\ pc' = [pc EXCEPT ![w] = "send_file"]
            /\ resp' = [resp EXCEPT ![w] = NoResp]
            /\ hist' = [hist EXCEPT ![w] =
                   [Hist0 EXCEPT !.before = image, !.outcome = "sending"]]
    /\ nreq' = nreq + 1
    /\ UNCHANGED <<clock, archive, image, figs, lastGood, arg, ret>>

\* line 101: send_file(OUTPUT_IMAGE) reads what the file holds now
SendFile(w) ==
    /\ pc[w] = "send_file"
    /\ pc' = [pc EXCEPT ![w] = "done"]
    /\ IF image.exists
       THEN /\ resp' = [resp EXCEPT ![w] =
                   [status |-> 200, kind |-> "image", error |-> <<>>,
                    body |-> image.bytes]]
            /\ hist' = [hist EXCEPT ![w].outcome = "Served"]
       ELSE \* the file went away after line 99
            /\ resp' = [resp EXCEPT ![w] =
                   ErrorResp(500, ExcMsg("FileNotFoundError"))]
            /\ hist' = [hist EXCEPT ![w].outcome = "Vanished"]
    /\ UNCHANGED <<clock, archive, image, figs, frame, lastGood, nreq, arg, ret>>
(***************************************************************************)
(* The served process: both handlers on every worker thread.               *)
(***************************************************************************)
BaseMinute == 2 * MinutesPerDay + 2

Url(i, minute) == url_of(BASE_PATHS[i], fname_of([min |-> minute, sec |-> 0]))

\* an even minute of the hour and an odd one with seconds
Clocks == {[min |-> BaseMinute, sec |-> 0], [min |-> BaseMinute + 1, sec |-> 37]}

\* archives: nothing published, only a file just outside the window, only
\* the oldest file of the window, files at two timestamps, one timestamp at
\* two locations
UrlSets ==
    { {},
      {Url(3, BaseMinute - HorizonMinutes)},
      {Url(3, BaseMinute - HorizonMinutes + Cadence)},
      {Url(2, BaseMinute - 4), Url(1, BaseMinute - 6)},
      {Url(3, BaseMinute - 3), Url(2, BaseMinute - 3)} }

Archives == {[u \in S |-> c] : S \in UrlSets, c \in Contents}

NoRet == [done |-> FALSE, val |-> <<>>]

InitProcess ==
    /\ figs = <<>>
    /\ pc = [w \in Workers |-> "idle"]
    /\ frame = [w \in Workers |-> Frame0]
    /\ resp = [w \in Workers |-> NoResp]
    /\ hist = [w \in Workers |-> Hist0]
    /\ lastGood = [any |-> FALSE, bytes |-> <<>>]
    /\ nreq = 0
    /\ ret = NoRet

Handle(w) ==
    \/ LatestMetaLocate(w)
    \/ Fetch(w)
    \/ Decompress(w)
    \/ Decode(w)
    \/ Resolve(w)
    \/ Figure(w)
    \/ Imshow(w)
    \/ SavefigOpen(w)
    \/ SavefigWrite(w)
    \/ CloseAndReturn(w)
    \/ LatestImageExists(w)
    \/ SendFile(w)

(***************************************************************************)
(* Requests served one after the other.                                    *)
(***************************************************************************)
InitSeq ==
    /\ clock \in Clocks
    /\ archive \in Archives
    /\ image \in {Absent, StaleImage}
    /\ InitProcess
    /\ arg = DsEmpty

NextSeq == Handle("w1")

SpecSeq == InitSeq /\ [][NextSeq]_vars

(***************************************************************************)
(* The threaded server of app.run: requests served concurrently.           *)
(***************************************************************************)
Init ==
    /\ clock = [min |-> BaseMinute, sec |-> 0]
    /\ archive \in {[u \in {Url(1, BaseMinute - 4)} |-> c] : c \in Contents}
                   \cup {[u \in {} |-> NoContent]}
    /\ image \in {Absent, StaleImage}
    /\ InitProcess
    /\ arg = DsEmpty

Next == \E w \in Workers : Handle(w)

Spec == Init /\ [][Next]_vars

(***************************************************************************)
(* The frame locator on its own, over many archives and clock readings.    *)
(***************************************************************************)
RECURSIVE SubsetsUpTo(_, _)
\* the subsets of S with at most k elements
SubsetsUpTo(S, k) ==
    IF k = 0 THEN {{}}
    ELSE LET P == SubsetsUpTo(S, k - 1) IN P \cup {p \cup {x} : p \in P, x \in S}

\* minutes a file may be stamped with: around now, around the far end of
\* the window, on and off the cadence grid
ArchiveMinutes ==
    {BaseMinute + 1, BaseMinute, BaseMinute - 3, BaseMinute - 4, BaseMinute - 5,
     BaseMinute - 6, BaseMinute - HorizonMinutes + 3,
     BaseMinute - HorizonMinutes + 2, BaseMinute - HorizonMinutes + 1,
     BaseMinute - HorizonMinutes}

LocateClocks ==
    {[min |-> BaseMinute + d, sec |-> c] : d \in {0, 1}, c \in {0, 37}}

LocateArchives ==
    {[u \in S |-> GribGz(DsRadar)] :
        S \in SubsetsUpTo({Url(i, m) : i \in DOMAIN BASE_PATHS, m \in ArchiveMinutes},
                          MaxFiles)}

InitLocate ==
    /\ clock \in LocateClocks
    /\ archive \in LocateArchives
    /\ image = Absent
    /\ InitProcess
    /\ arg = DsEmpty

\* try_fetch_latest_file() is called
CallLocate ==
    /\ ~ret.done
    /\ ret' = [done |-> TRUE, val |-> try_fetch_latest_file(clock, archive)]
    /\ UNCHANGED <<clock, archive, image, figs, pc, frame, resp, hist,
                   lastGood, nreq, arg>>

NextLocate == CallLocate

SpecLocate == InitLocate /\ [][NextLocate]_vars

(***************************************************************************)
(* The resolver functions on their own, over many datasets.                *)
(***************************************************************************)
\* the lists of at most n distinct names of S
DistinctSeqs(S, n) ==
    {vs \in UNION {[1..k -> S] : k \in 1..n} :
        \A i, j \in DOMAIN vs : vs[i] = vs[j] => i = j}

\* a process that serves no request
InitQuiet ==
    /\ clock = [min |-> BaseMinute, sec |-> 0]
    /\ archive = [u \in {} |-> NoContent]
    /\ image = Absent
    /\ InitProcess

InitPick ==
    /\ InitQuiet
    /\ arg \in {[id |-> "in", data_vars |-> vs, ndim |-> 2, coords |-> NoCoords] :
                   vs \in DistinctSeqs(VarNames, MaxVars)}

\* pick_reflectivity_var(ds) is called
CallPick ==
    /\ ~ret.done
    /\ ret' = [done |-> TRUE, val |-> pick_reflectivity_var(arg)]
    /\ UNCHANGED <<clock, archive, image, figs, pc, frame, resp, hist,
                   lastGood, nreq, arg>>

NextPick == CallPick

SpecPick == InitPick /\ [][NextPick]_vars

\* names a dataset's coordinates may go by: the aliases and a spelling that
\* is none of them
CoordNames == Range(LatAliases) \cup Range(LonAliases) \cup {"LAT"}
CoordValues == {-100, 25, 40}
CoordArrays == UNION {[1..n -> CoordValues] : n \in 1..MaxLen}

\* every coordinate holds its own values: those of a, moved by the place of
\* its name among the latitude aliases, or those of b likewise
CoordsOf(S, a, b) ==
    [n \in S |->
        IF \E i \in DOMAIN LatAliases : LatAliases[i] = n
        THEN [k \in DOMAIN a |->
                 a[k] + (CHOOSE i \in DOMAIN LatAliases : LatAliases[i] = n)]
        ELSE IF \E i \in DOMAIN LonAliases : LonAliases[i] = n
        THEN [k \in DOMAIN b |->
                 b[k] - (CHOOSE i \in DOMAIN LonAliases : LonAliases[i] = n)]
        ELSE a]

InitBounds ==
    /\ InitQuiet
    /\ arg \in {[id |-> "in", data_vars |-> <<unknown>>, ndim |-> 2,
                 coords |-> CoordsOf(S, a, b)] :
                   S \in SubsetsUpTo(CoordNames, MaxCoords),
                   a \in CoordArrays, b \in CoordArrays}

\* get_bounds_from_dataset(ds) is called
CallBounds ==
    /\ ~ret.done
    /\ ret' = [done |-> TRUE, val |-> get_bounds_from_dataset(arg)]
    /\ UNCHANGED <<clock, archive, image, figs, pc, frame, resp, hist,
                   lastGood, nreq, arg>>

NextBounds == CallBounds

SpecBounds == InitBounds /\ [][NextBounds]_vars
(***************************************************************************)
(* Properties.                                                             *)
(***************************************************************************)
\* the offsets of the 4-hour window, every 2 minutes from 0
WindowOffsets == {o \in 0..(HorizonMinutes - 1) : o % Cadence = 0}

\* the file name stamped o minutes before now
NameAt(now, o) == fname_of(minus_minutes(now, o))

\* the locations (places in BASE_PATHS) that hold the file named fn
LocationsOf(arch, fn) ==
    {i \in DOMAIN BASE_PATHS : url_of(BASE_PATHS[i], fn) \in DOMAIN arch}

\* the offsets of the window at which some location holds a file
ExistingOffsets(now, arch) ==
    {o \in WindowOffsets : LocationsOf(arch, NameAt(now, o)) # {}}

\* the minute, counted from day 0, that a file name is stamped with
MinuteOfName(fn) == fn[2][1] * MinutesPerDay + fn[2][2] * 60 + fn[2][3]

\* C1: a URL returned by try_fetch_latest_file carries the newest timestamp
\* of the window (T, T-2min, T-4min, ...) at which any location holds a
\* file, HEAD requests go out newest timestamp first, and none goes out for
\* a timestamp older than the returned one.
C1_NewestFirst ==
    (ret.done /\ ret.val.url # None) =>
        LET E == ExistingOffsets(clock, archive)
            fn == ret.val.url[2]
            probed(m) == MinuteOfName(candidate_url(clock, m)[2])
        IN  /\ E # {}
            /\ fn = NameAt(clock, SetMin(E))
            /\ ret.val.url \in DOMAIN archive
            /\ \A m \in 1..ret.val.probes : probed(m) >= MinuteOfName(fn)
            /\ \A m \in 1..(ret.val.probes - 1) : probed(m) >= probed(m + 1)

\* files exist at T-4 and at T-6 only, and the T-4 URL was returned
C1_Witness ==
    /\ ret.done
    /\ ExistingOffsets(clock, archive) = {4, 6}
    /\ ret.val.url # None
    /\ ret.val.url[2] = NameAt(clock, 4)

\* C2: when the returned timestamp's file exists at several locations, the
\* returned URL is the one under the location that comes first in BASE_PATHS.
C2_LocationPriority ==
    (ret.done /\ ret.val.url # None) =>
        LET L == LocationsOf(archive, ret.val.url[2])
        IN  /\ L # {}
            /\ ret.val.url[1] = BASE_PATHS[SetMin(L)]

\* the returned timestamp exists at the second and the third location only
C2_Witness ==
    /\ ret.done
    /\ ret.val.url # None
    /\ LocationsOf(archive, ret.val.url[2]) = {2, 3}
    /\ ret.val.url[1] = BASE_PATHS[2]

\* C6 (as claimed): every candidate file name built carries an even minute
\* and 00 seconds, so it lies on the archive's 2-minute grid.
C6_OnGrid ==
    ret.done =>
        \A m \in 1..ret.val.probes :
            LET stamp == candidate_url(clock, m)[2][2]
            IN  stamp[3] % 2 = 0 /\ stamp[4] = "00"

FailureKinds ==
    {"NotFound", "FetchError", "FetchFailed", "DecompressFailed",
     "DecodeFailed", "RenderFailed"}

\* C3 (as claimed): after a trigger run that ended in a failure the image
\* file is what it was when the run began.
C3_FailureLeavesImage ==
    \A w \in Workers :
        (pc[w] = "done" /\ hist[w].outcome \in FailureKinds) =>
            image = hist[w].before

\* C4 (as claimed): latest_image answers "not yet generated" exactly when no
\* trigger run has succeeded since the process started, and otherwise the
\* non-empty raster of the most recent successful run.
C4_ImageIffSucceeded ==
    \A w \in Workers :
        (pc[w] = "done" /\ hist[w].outcome \in {"NotYet", "Served", "Vanished"}) =>
            /\ (resp[w].status = 400 /\ resp[w].error = NotYetMsg) <=> ~lastGood.any
            /\ lastGood.any =>
                  /\ resp[w].kind = "image"
                  /\ resp[w].body # <<>>
                  /\ resp[w].body = lastGood.bytes

\* the bytes are those of one whole saved figure
Complete(bytes) ==
    /\ Len(bytes) = ImageChunks
    /\ \A k \in DOMAIN bytes : bytes[k] = <<k, bytes[1][2]>>

\* C8 (as claimed): no two writes of the image file overlap and every
\* response of latest_image carries one whole image.
C8_AtomicWrite ==
    /\ Cardinality({w \in Workers : pc[w] = "write"}) <= 1
    /\ \A w \in Workers : resp[w].kind = "image" => Complete(resp[w].body)

\* C5: try_fetch_latest_file returns None exactly when no URL of the
\* (window timestamps) x (locations) product exists, and latest_meta then
\* answers with a description that differs from the one it gives when the
\* GET of a located URL is answered with a status other than 200, which
\* names that status.
C5_NotFoundDistinct ==
    \A w \in Workers :
        hist[w].steps # <<>> =>
            /\ (frame[w].file_url = None) <=>
                   (ExistingOffsets(frame[w].now, archive) = {})
            /\ (hist[w].outcome = "NotFound") <=> (frame[w].file_url = None)
            /\ hist[w].outcome = "NotFound" =>
                  /\ pc[w] = "done"
                  /\ resp[w].status = 500
                  /\ resp[w].error =
                        <<"No recent MRMS files found (checked multiple folders)">>
            /\ hist[w].outcome = "FetchFailed" =>
                  /\ pc[w] = "done"
                  /\ resp[w].status = 500
                  /\ resp[w].error #
                        <<"No recent MRMS files found (checked multiple folders)">>
                  /\ \E st \in RejectStatuses :
                        resp[w].error = <<"Failed to fetch GRIB2 (HTTP ", st, ")">>

\* a run found nothing although a file just outside the window exists
C5_Witness ==
    /\ pc["w1"] = "done"
    /\ hist["w1"].outcome = "NotFound"
    /\ archive # [u \in {} |-> NoContent]

PipelineOrder ==
    <<"locate", "fetch", "decompress", "decode", "resolve", "render">>

\* C9: a trigger run goes through locate, fetch, decompress, decode, resolve
\* and render in this order, each at most once; a step is taken only after
\* every earlier one succeeded; a failed step ends the run with status 500
\* and a description; a run fetches a body at most once and saves the image
\* at most once, the latter only after locate, fetch, decompress and decode
\* succeeded.
C9_OnePass ==
    \A w \in Workers :
        LET st == hist[w].steps IN
        /\ Len(st) <= Len(PipelineOrder)
        /\ \A i \in DOMAIN st : st[i].step = PipelineOrder[i]
        /\ \A i \in DOMAIN st : i < Len(st) => st[i].ok
        /\ (st # <<>> /\ ~st[Len(st)].ok) =>
              /\ pc[w] = "done"
              /\ resp[w].status = 500
              /\ resp[w].kind = "error"
              /\ resp[w].error # <<>>
        /\ hist[w].fetches <= 1
        /\ hist[w].saves <= 1
        /\ hist[w].fetches = 1 => (Len(st) >= 1 /\ st[1].ok)
        /\ hist[w].saves = 1 => (Len(st) >= 4 /\ \A i \in 1..4 : st[i].ok)

\* a run went through all six steps while another one failed at decode
\* time or later
C9_Witness ==
    \E w, v \in Workers :
        /\ hist[w].outcome = "Done"
        /\ Len(hist[w].steps) = 6
        /\ hist[w].saves = 1
        /\ hist[v].outcome = "RenderFailed"
        /\ hist[v].fetches = 1

\* the names of VarNames whose lower-cased form contains "reflect"
ReflectNames == {MockReflectivity, REFLECTIVITY, BaseReflect}

\* C10: pick_reflectivity_var returns the first name, in dataset order,
\* whose lower-cased form contains "reflect", and the first field of the
\* dataset when no name does.
C10_PickReflect ==
    ret.done =>
        LET vs == arg.data_vars
            M == {i \in DOMAIN vs : vs[i] \in ReflectNames}
        IN  IF M = {} THEN ret.val = vs[1] ELSE ret.val = vs[SetMin(M)]

\* an upper-case match that is not the first field was picked
C10_Witness ==
    /\ ret.done
    /\ Len(arg.data_vars) >= 2
    /\ arg.data_vars[1] = Reflec
    /\ ret.val = REFLECTIVITY

\* C7: get_bounds_from_dataset returns the fallback bounds when the
\* coordinates lack every latitude alias or every longitude alias, and
\* otherwise (min(lat), min(lon), max(lat), max(lon)) over the first alias
\* present of each list, with south <= north and west <= east.
C7_Bounds ==
    ret.done =>
        LET c == arg.coords
            LA == {i \in DOMAIN LatAliases : LatAliases[i] \in DOMAIN c}
            LO == {i \in DOMAIN LonAliases : LonAliases[i] \in DOMAIN c}
            lo(a) == CHOOSE x \in Range(a) : \A y \in Range(a) : x <= y
            hi(a) == CHOOSE x \in Range(a) : \A y \in Range(a) : y <= x
        IN  IF LA = {} \/ LO = {}
            THEN ret.val = <<25, -125, 50, -65>>
            ELSE LET lat == c[LatAliases[SetMin(LA)]]
                     lon == c[LonAliases[SetMin(LO)]]
                 IN  /\ ret.val = <<lo(lat), lo(lon), hi(lat), hi(lon)>>
                     /\ ret.val[1] <= ret.val[3]
                     /\ ret.val[2] <= ret.val[4]

\* two latitude aliases and a longitude alias are present, and the bounds
\* are a proper rectangle read from the first of them
C7_Witness ==
    /\ ret.done
    /\ {"lat", "LATITUDE", "lon"} = DOMAIN arg.coords
    /\ ret.val[1] < ret.val[3]
    /\ ret.val[2] < ret.val[4]
    /\ ret.val[1] = SetMin(Range(arg.coords["lat"]))
====
